---- MODULE Spec2Model ----
(***************************************************************************)
(* Main-thread side of the WaspHlsPlayer: the public API of the player,    *)
(* the handler of the messages coming from the worker, the MediaSource     *)
(* binding and the per-SourceBuffer operation queue.                       *)
(*                                                                         *)
(* Identifiers are positive integers; 0 stands for `null` / `undefined`.   *)
(***************************************************************************)
EXTENDS Integers, Sequences, FiniteSets, TLC

\* ------------------------------------------------------------------ bounds
\* Identifiers the worker may put in a message: contentId in 1..MaxContentId,
\* mediaSourceId in 1..MaxMsId, sourceBufferId in 1..MaxSbId.
MaxContentId == 2
MaxMsId == 2
MaxSbId == 2
\* Positions, offsets and durations carried by messages: 0..MaxPos.
MaxPos == 1

\* Numbers are IEEE-754 doubles, written here as multiples of a quantum: the
\* significand has Precision bits in place of 53.  Offsets given by the worker
\* go up to MaxOffset and positions given to seek() up to MaxSeek.
Precision == 2
MaxOffset == 4
MaxSeek == 3

ContentIds == 1..MaxContentId
MsIds == 1..MaxMsId
SbIds == 1..MaxSbId
Positions == 0..MaxPos

\* `null` content record (this._currentContentMetadata === null).
NoContent == [contentId |-> 0]

\* `undefined` where a number is expected.
Undefined == 0 - 1

\* videoElement.src when the worker attached its own MediaSource.
WorkerSrc == 0 - 1

VARIABLES
    initializationStatus, \* WaspHlsPlayer.initializationStatus
    worker,               \* this._worker !== null
    started,              \* _startWorker ran: onmessage / onerror are installed
    mayStillReject,       \* mayStillReject of _startWorker
    promise,              \* state of the promise returned by initialize
    nextContentId,        \* state of generateContentId
    content,              \* this._currentContentMetadata
    video,                \* the HTMLVideoElement: src and currentTime
    mediaSources,         \* MediaSource objects created on the main thread
    sourceBuffers,        \* SourceBuffer objects: owner, operations in flight, and
                          \* the sourceBufferId each was registered under
    qsbs,                 \* QueuedSourceBuffer objects
    nextOp,               \* number given to the next operation accepted
    awaiting,             \* operations accepted whose promise is not settled yet
    feeds,                \* playback observation feeds running
    nextFeed,             \* number given to the next feed started
    posted,               \* messages posted to the worker by the last step
    settled,              \* operations whose promise callbacks ran in the last step
    submitted,            \* operations given to the primitive by the last step
    raised,               \* the last step threw
    last                  \* the API call, message or notification last handled

\* what the player and the surface hold (not the record of the last step)
state == <<initializationStatus, worker, started, mayStillReject, promise,
           nextContentId, content, video, mediaSources, sourceBuffers, qsbs,
           nextOp, awaiting, feeds, nextFeed>>

vars == <<initializationStatus, worker, started, mayStillReject, promise,
          nextContentId, content, video, mediaSources, sourceBuffers, qsbs,
          nextOp, awaiting, feeds, nextFeed, posted, settled, submitted,
          raised, last>>

\* a step that touches no channel
NoChannelStep == settled' = <<>> /\ submitted' = {}

Did(type, contentId, mediaSourceId, sourceBufferId) ==
    last' = [type |-> type, contentId |-> contentId,
             mediaSourceId |-> mediaSourceId, sourceBufferId |-> sourceBufferId]

\* A handler that returns early: nothing changes, nothing is posted.
Dropped == UNCHANGED state /\ posted' = <<>> /\ raised' = FALSE /\ NoChannelStep

Init ==
    /\ initializationStatus = "Uninitialized"
    /\ worker = FALSE
    /\ started = FALSE
    /\ mayStillReject = FALSE
    /\ promise = "none"
    /\ nextContentId = 1
    /\ content = NoContent
    /\ video = [src |-> 0, currentTime |-> 0]
    /\ mediaSources = <<>>
    /\ sourceBuffers = <<>>
    /\ qsbs = <<>>
    /\ nextOp = 1
    /\ awaiting = <<>>
    /\ feeds = {}
    /\ nextFeed = 1
    /\ posted = <<>>
    /\ settled = <<>>
    /\ submitted = {}
    /\ raised = FALSE
    /\ last = [type |-> "new", contentId |-> 0, mediaSourceId |-> 0,
               sourceBufferId |-> 0]

\* ------------------------------------------------- the rendering surface
\* The MediaSource object m leaves the media element: it closes, loses its
\* SourceBuffers, and a "sourceclose" event is queued when it was not closed.
Detach(mss, m) ==
    [mss EXCEPT ![m] = [@ EXCEPT
        !.readyState = "closed",
        !.buffers = {},
        !.events = IF mss[m].readyState = "closed" THEN @ ELSE @ \cup {"sourceclose"}]]

\* videoElement.src = src: the MediaSource attached before, if any, is detached.
SetSrc(mss, v, src) ==
    IF v.src > 0 /\ v.src # src THEN Detach(mss, v.src) ELSE mss

\* clearElementSrc(videoElement): element.src = "" and removeAttribute("src").
clearElementSrc(mss, v) ==
    [mediaSources |-> SetSrc(mss, v, 0), video |-> [v EXCEPT !.src = 0]]

\* new MediaSource(), then bindMediaSource: the three listeners are registered
\* and the object URL of the MediaSource becomes the src of the element.
bindMediaSource(mss, v, mediaSourceId) ==
    LET m == Len(mss) + 1
        bound == [mediaSourceId |-> mediaSourceId, listeners |-> TRUE,
                  readyState |-> "closed", duration |-> 0, buffers |-> {},
                  events |-> {}]
    IN  [mediaSources |-> Append(SetSrc(mss, v, m), bound),
         video |-> [v EXCEPT !.src = m],
         disposeMediaSource |-> m]

\* SourceBuffers the dispose callback removes itself: those not updating,
\* and only when the MediaSource is not closed.
RemovedByDispose(mss, sbs, m) ==
    IF mss[m].readyState = "closed" THEN {}
    ELSE {p \in mss[m].buffers : sbs[p].busy = 0}

\* A dispose callback that detaches the MediaSource with its listeners on.
RunDisposeKeepingListeners(mss, sbs, v, d) ==
    IF d > 0
    THEN [mediaSources |-> SetSrc(mss, v, 0), video |-> [v EXCEPT !.src = 0]]
    ELSE [mediaSources |-> mss, video |-> v]

\* The callback returned by bindMediaSource (m > 0), or the one built by the
\* attach-media-source handler (WorkerSrc), or none (0).
RunDispose(mss, sbs, v, d) ==
    IF d > 0
    THEN LET unbound == [mss EXCEPT ![d] = [@ EXCEPT
                 !.listeners = FALSE,
                 !.buffers = @ \ RemovedByDispose(mss, sbs, d)]]
         IN  [mediaSources |-> SetSrc(unbound, v, 0), video |-> [v EXCEPT !.src = 0]]
    ELSE [mediaSources |-> mss, video |-> v]

\* ------------------------------------------------- QueuedSourceBuffer
\* An operation is [op, mediaSourceId, sourceBufferId]: its number and what the
\* callbacks of its promise close over.  A world is the part of the state a
\* queue operation may touch.
NoOp == [op |-> 0]

World == [qsbs |-> qsbs, sourceBuffers |-> sourceBuffers]

\* new QueuedSourceBuffer(sourceBuffer)
NewQueuedSourceBuffer(sourceBuffer) ==
    [sourceBuffer |-> sourceBuffer, queue |-> <<>>, pending |-> NoOp,
     faulted |-> FALSE]

Rejected(queue) == [i \in 1..Len(queue) |-> [op |-> queue[i], ok |-> FALSE]]

\* A failure that faults every channel, not only the one of the operation.
FailEveryChannel(w, q, o, given) ==
    [w |-> [w EXCEPT !.qsbs = [k \in 1..Len(w.qsbs) |->
                [w.qsbs[k] EXCEPT !.queue = <<>>, !.pending = NoOp,
                                  !.faulted = TRUE]]],
     settled |-> <<[op |-> o, ok |-> FALSE]>> \o Rejected(w.qsbs[q].queue),
     submitted |-> given]

\* Operation o failed: it is rejected, the queue is drained (every drained
\* operation rejected in turn) and the channel is faulted.
Fail(w, q, o, given) ==
    [w |-> [w EXCEPT !.qsbs[q] = [@ EXCEPT !.queue = <<>>, !.pending = NoOp,
                                           !.faulted = TRUE]],
     settled |-> <<[op |-> o, ok |-> FALSE]>> \o Rejected(w.qsbs[q].queue),
     submitted |-> given]

\* The primitive refuses an operation as soon as it is called on a
\* SourceBuffer removed from its MediaSource, or for a reason of its own.
StartThrows(w, mss, q, throws) ==
    LET p == w.qsbs[q].sourceBuffer
    IN  throws \/ p \notin mss[w.sourceBuffers[p].ms].buffers

\* Nothing is in flight: the head of the queue is given to the primitive.
StartNext(w, mss, q, throws) ==
    IF w.qsbs[q].queue = <<>> THEN [w |-> w, settled |-> <<>>, submitted |-> {}]
    ELSE LET o == Head(w.qsbs[q].queue)
             p == w.qsbs[q].sourceBuffer
             w1 == [w EXCEPT !.qsbs[q].queue = Tail(@)]
         IN  IF StartThrows(w, mss, q, throws) THEN Fail(w1, q, o, {o.op})
             ELSE [w |-> [w1 EXCEPT !.qsbs[q].pending = o,
                                    !.sourceBuffers[p].busy = @ + 1],
                   settled |-> <<>>,
                   submitted |-> {o.op}]

\* The operation is started at once when the channel is idle.
StartsNow(qs) == qs.pending = NoOp /\ qs.queue = <<>>

\* A queue that forgets that it is faulted.
EnqueueOnFaulted(w, mss, q, o, throws) ==
    LET w1 == [w EXCEPT !.qsbs[q].queue = Append(@, o)]
    IN  IF StartsNow(w.qsbs[q]) THEN StartNext(w1, mss, q, throws)
        ELSE [w |-> w1, settled |-> <<>>, submitted |-> {}]

\* push(data) / removeBuffer(start, end): a faulted channel rejects locally.
Enqueue(w, mss, q, o, throws) ==
    IF w.qsbs[q].faulted
    THEN [w |-> w, settled |-> <<[op |-> o, ok |-> FALSE]>>, submitted |-> {}]
    ELSE LET w1 == [w EXCEPT !.qsbs[q].queue = Append(@, o)]
         IN  IF StartsNow(w.qsbs[q]) THEN StartNext(w1, mss, q, throws)
             ELSE [w |-> w1, settled |-> <<>>, submitted |-> {}]

\* The primitive ended the operation in flight, with success or not.
Complete(w, mss, q, ok, throws) ==
    LET o == w.qsbs[q].pending
        p == w.qsbs[q].sourceBuffer
        w1 == [w EXCEPT !.sourceBuffers[p].busy = @ - 1, !.qsbs[q].pending = NoOp]
    IN  IF ok
        THEN LET next == StartNext(w1, mss, q, throws)
             IN  [w |-> next.w,
                  settled |-> <<[op |-> o, ok |-> TRUE]>> \o next.settled,
                  submitted |-> next.submitted]
        ELSE Fail(w1, q, o, {})

\* ------------------------------------------------- correlation
\* A content-scoped check that forgets to compare the ids.
IsCurrentContentAnyId(c, contentId) == c # NoContent

\* The content-scoped check of the handlers:
\* _currentContentMetadata !== null && contentId === data.value.contentId
IsCurrentContent(c, contentId) ==
    c # NoContent /\ c.contentId = contentId

\* A MediaSource-scoped check that forgets to compare the ids.
IsCurrentMediaSourceAnyId(c, mediaSourceId) == c # NoContent

\* The MediaSource-scoped check of the handlers:
\* _currentContentMetadata?.mediaSourceId === data.value.mediaSourceId
IsCurrentMediaSource(c, mediaSourceId) ==
    c # NoContent /\ c.mediaSourceId = mediaSourceId

\* A stop callback that stops nothing.
StopFeedNotStopping(fs, stop) == fs

\* stopPlaybackObservations(), when it is not null
StopFeed(fs, stop) ==
    IF stop = 0 THEN fs ELSE {f \in fs : f.feed # stop}

\* ------------------------------------------------- public API
\* The promise returned by initialize settles once: resolveProm and rejectProm
\* do nothing on a promise already resolved or rejected.
resolvePromAnyway(p) == "resolved"

resolveProm(p) == IF p = "pending" THEN "resolved" ELSE p

rejectProm(p) == IF p = "pending" THEN "rejected" ELSE p

\* initialize(opts): the worker is created and sent "init"; when creating the
\* worker throws, the status is Errored and the promise returned is rejected.
\* The code has no guard of its own; the application is taken to call it once
\* per player.
Initialize ==
    /\ initializationStatus = "Uninitialized"
    /\ Did("initialize", 0, 0, 0)
    /\ \E throws \in BOOLEAN :
          IF throws
          THEN /\ initializationStatus' = "errorred"
               /\ promise' = "rejected"
               /\ posted' = <<>>
               /\ UNCHANGED <<worker, started, mayStillReject>>
          ELSE /\ initializationStatus' = "Initializing"
               /\ worker' = TRUE
               /\ started' = TRUE
               /\ mayStillReject' = TRUE
               /\ promise' = "pending"
               /\ posted' = <<[type |-> "init"]>>
    /\ NoChannelStep
    /\ raised' = FALSE
    /\ UNCHANGED <<nextContentId, content, video, mediaSources, sourceBuffers,
                   qsbs, nextOp, awaiting, feeds, nextFeed>>

\* A generator that hands out the same identifier again.
idGeneratorStuck(n) == [id |-> n, next |-> n]

\* idGenerator(): a call of the function it returns, the generator being in
\* state n, gives the identifier n and leaves the generator in state n + 1.
idGenerator(n) == [id |-> n, next |-> n + 1]

\* loadContent(url)
LoadContent ==
    /\ Did("loadContent", idGenerator(nextContentId).id, 0, 0)
    /\ IF ~worker
       THEN /\ raised' = TRUE
            /\ NoChannelStep
            /\ posted' = <<>>
            /\ UNCHANGED state
       ELSE /\ nextContentId' = idGenerator(nextContentId).next
            /\ content' = [contentId |-> idGenerator(nextContentId).id,
                           mediaSourceId |-> 0,
                           mediaSource |-> 0,
                           disposeMediaSource |-> 0,
                           sourceBuffers |-> <<>>,
                           stopPlaybackObservations |-> 0,
                           mediaOffset |-> Undefined,
                           minimumPosition |-> Undefined,
                           maximumPosition |-> Undefined]
            /\ NoChannelStep
            /\ posted' = <<[type |-> "load",
                            contentId |-> idGenerator(nextContentId).id]>>
            /\ raised' = FALSE
            /\ UNCHANGED <<initializationStatus, worker, started, mayStillReject,
                           promise, video, mediaSources, sourceBuffers, qsbs,
                           nextOp, awaiting, feeds, nextFeed>>

\* loadContent(url) of another WaspHlsPlayer of the realm: generateContentId is
\* a constant of the module, shared by every instance.
OtherPlayerLoadContent ==
    /\ Did("other-loadContent", idGenerator(nextContentId).id, 0, 0)
    /\ nextContentId' = idGenerator(nextContentId).next
    /\ NoChannelStep
    /\ posted' = <<>>
    /\ raised' = FALSE
    /\ UNCHANGED <<initializationStatus, worker, started, mayStillReject, promise,
                   content, video, mediaSources, sourceBuffers, qsbs, nextOp,
                   awaiting, feeds, nextFeed>>

\* stop()
Stop ==
    /\ Did("stop", 0, 0, 0)
    /\ IF ~worker
       THEN /\ raised' = TRUE
            /\ NoChannelStep
            /\ posted' = <<>>
            /\ UNCHANGED state
       ELSE /\ raised' = FALSE
            /\ IF content # NoContent
               THEN /\ feeds' = StopFeed(feeds, content.stopPlaybackObservations)
                    /\ content' = [content EXCEPT !.stopPlaybackObservations = 0]
                    /\ NoChannelStep
                    /\ posted' = <<[type |-> "stop", contentId |-> content.contentId]>>
               ELSE /\ NoChannelStep
                    /\ posted' = <<>>
                    /\ UNCHANGED <<feeds, content>>
            /\ UNCHANGED <<initializationStatus, worker, started, mayStillReject,
                           promise, nextContentId, video, mediaSources,
                           sourceBuffers, qsbs, nextOp, awaiting, nextFeed>>

\* dispose()
Dispose ==
    /\ Did("dispose", 0, 0, 0)
    /\ raised' = FALSE
    /\ IF ~worker
       THEN /\ NoChannelStep
            /\ posted' = <<>>
            /\ UNCHANGED state
       ELSE /\ IF content # NoContent
               THEN /\ feeds' = StopFeed(feeds, content.stopPlaybackObservations)
                    /\ content' = [content EXCEPT !.stopPlaybackObservations = 0]
               ELSE UNCHANGED <<feeds, content>>
            /\ NoChannelStep
            /\ posted' = <<[type |-> "dispose"]>>
            /\ worker' = FALSE
            /\ UNCHANGED <<initializationStatus, started, mayStillReject, promise,
                           nextContentId, video, mediaSources, sourceBuffers,
                           qsbs, nextOp, awaiting, nextFeed>>

\* ------------------------------------------------- numbers
RECURSIVE Pow2(_)
Pow2(n) == IF n = 0 THEN 1 ELSE 2 * Pow2(n - 1)

\* The gap between the numbers around x >= 0: the least power of two u with
\* x < u * 2^Precision.
RECURSIVE UlpFrom(_, _)
UlpFrom(x, u) == IF x < u * Pow2(Precision) THEN u ELSE UlpFrom(x, 2 * u)

Ulp(x) == UlpFrom(x, 1)

\* x >= 0 rounded to the nearest number, ties to the even significand.
RoundMagnitude(x) ==
    LET u == Ulp(x)
        q == x \div u
        r == x % u
    IN  IF 2 * r < u THEN q * u
        ELSE IF 2 * r > u THEN (q + 1) * u
        ELSE IF q % 2 = 0 THEN q * u ELSE (q + 1) * u

\* An arithmetic that never rounds.
RoundExact(x) == x

\* The result of an operation whose exact value is x.
Round(x) == IF x >= 0 THEN RoundMagnitude(x) ELSE 0 - RoundMagnitude(0 - x)

Representable(x) == Round(x) = x

\* a + b and a - b on numbers
Plus(a, b) == Round(a + b)

Minus(a, b) == Round(a - b)

\* mediaOffset ?? 0
OffsetOf(c) == IF c.mediaOffset = Undefined THEN 0 ELSE c.mediaOffset

\* A getPosition() that forgets the offset.
getPositionOfElement ==
    IF content = NoContent THEN 0 ELSE video.currentTime

\* getPosition()
getPosition ==
    IF content = NoContent THEN 0
    ELSE Minus(video.currentTime, OffsetOf(content))

\* seek(position)
Seek(position) ==
    /\ Did("seek-call", 0, 0, 0)
    /\ NoChannelStep
    /\ posted' = <<>>
    /\ IF content = NoContent
       THEN raised' = TRUE /\ UNCHANGED state
       ELSE /\ raised' = FALSE
            /\ video' = [video EXCEPT
                   !.currentTime = Plus(position, OffsetOf(content))]
            /\ UNCHANGED <<initializationStatus, worker, started, mayStillReject,
                           promise, nextContentId, content, mediaSources,
                           sourceBuffers, qsbs, nextOp, awaiting, feeds, nextFeed>>

\* getMinimumPosition() / getMaximumPosition()
getMinimumPosition ==
    IF content = NoContent THEN Undefined ELSE content.minimumPosition

getMaximumPosition ==
    IF content = NoContent THEN Undefined ELSE content.maximumPosition

\* ------------------------------------------------- worker.onmessage: bootstrap
\* "initialized"
OnInitialized ==
    /\ started
    /\ Did("initialized", 0, 0, 0)
    /\ initializationStatus' = "Initialized"
    /\ mayStillReject' = FALSE
    /\ promise' = resolveProm(promise)
    /\ NoChannelStep
    /\ posted' = <<>>
    /\ raised' = FALSE
    /\ UNCHANGED <<worker, started, nextContentId, content, video, mediaSources,
                   sourceBuffers, qsbs, nextOp, awaiting, feeds, nextFeed>>

\* "initialization-error"
OnInitializationError ==
    /\ started
    /\ Did("initialization-error", 0, 0, 0)
    /\ mayStillReject' = FALSE
    /\ promise' = IF mayStillReject THEN rejectProm(promise) ELSE promise
    /\ NoChannelStep
    /\ posted' = <<>>
    /\ raised' = FALSE
    /\ UNCHANGED <<initializationStatus, worker, started, nextContentId, content,
                   video, mediaSources, sourceBuffers, qsbs, nextOp, awaiting, feeds, nextFeed>>

\* worker.onerror
OnWorkerError ==
    /\ started
    /\ Did("worker-error", 0, 0, 0)
    /\ promise' = IF mayStillReject THEN rejectProm(promise) ELSE promise
    /\ NoChannelStep
    /\ posted' = <<>>
    /\ raised' = FALSE
    /\ UNCHANGED <<initializationStatus, worker, started, mayStillReject,
                   nextContentId, content, video, mediaSources, sourceBuffers,
                   qsbs, nextOp, awaiting, feeds, nextFeed>>

\* What a message event may carry: data is [typeof, null, type], type being
\* `typeof data.type`, or "known" for a string that a case of the switch handles.
Shapes ==
    {[typeof |-> "string", null |-> FALSE, type |-> "undefined"],
     [typeof |-> "object", null |-> TRUE, type |-> "undefined"],
     [typeof |-> "object", null |-> FALSE, type |-> "undefined"],
     [typeof |-> "object", null |-> FALSE, type |-> "number"],
     [typeof |-> "object", null |-> FALSE, type |-> "string"]}

\* An envelope check that forgets that `typeof null` is "object".
IsEnvelopeOrNull(data) ==
    data.typeof = "object" /\ (data.null \/ data.type = "string")

\* typeof data === "object" && data !== null && typeof data.type === "string"
IsEnvelope(data) ==
    data.typeof = "object" /\ ~data.null /\ data.type = "string"

\* A message that no case of the switch handles: a malformed envelope returns
\* at the check; a string type without a case falls through the switch.
\* Reading `data.type` of null would throw.
OnUnexpectedMessage(data) ==
    /\ started
    /\ Did(IF data.type = "string" THEN "unknown" ELSE "malformed", 0, 0, 0)
    /\ IF ~IsEnvelope(data) THEN Dropped
       ELSE /\ raised' = data.null
            /\ NoChannelStep
            /\ posted' = <<>>
            /\ UNCHANGED state

\* ------------------------------------------------- worker.onmessage: content scope
\* An attach-media-source that registers the listeners of bindMediaSource on
\* a MediaSource of the main thread.
OnAttachMediaSourceBinding(contentId, mediaSourceId, source) ==
    /\ started
    /\ Did("attach-media-source", contentId, mediaSourceId, 0)
    /\ IF ~IsCurrentContent(content, contentId) THEN Dropped
       ELSE /\ feeds' = StopFeed(feeds, content.stopPlaybackObservations)
            /\ NoChannelStep
            /\ posted' = <<>>
            /\ raised' = FALSE
            /\ LET b == bindMediaSource(mediaSources, video, mediaSourceId)
               IN  /\ mediaSources' = b.mediaSources
                   /\ video' = b.video
            /\ content' = [content EXCEPT
                   !.mediaSourceId = mediaSourceId,
                   !.mediaSource = 0,
                   !.disposeMediaSource = WorkerSrc,
                   !.sourceBuffers = <<>>,
                   !.stopPlaybackObservations = 0]
            /\ UNCHANGED <<initializationStatus, worker, started, mayStillReject,
                           promise, nextContentId, sourceBuffers, qsbs, nextOp,
                           awaiting, nextFeed>>

\* "attach-media-source"; source: what the message provides.
OnAttachMediaSource(contentId, mediaSourceId, source) ==
    /\ started
    /\ Did("attach-media-source", contentId, mediaSourceId, 0)
    /\ IF ~IsCurrentContent(content, contentId) THEN Dropped
       ELSE /\ feeds' = StopFeed(feeds, content.stopPlaybackObservations)
            /\ NoChannelStep
            /\ posted' = <<>>
            /\ IF source = "none"
               THEN /\ raised' = TRUE
                    /\ content' = [content EXCEPT !.stopPlaybackObservations = 0]
                    /\ UNCHANGED <<video, mediaSources>>
               ELSE /\ raised' = FALSE
                    /\ video' = [video EXCEPT !.src = WorkerSrc]
                    /\ mediaSources' = SetSrc(mediaSources, video, WorkerSrc)
                    /\ content' = [content EXCEPT
                           !.mediaSourceId = mediaSourceId,
                           !.mediaSource = 0,
                           !.disposeMediaSource = WorkerSrc,
                           !.sourceBuffers = <<>>,
                           !.stopPlaybackObservations = 0]
            /\ UNCHANGED <<initializationStatus, worker, started, mayStillReject,
                           promise, nextContentId, sourceBuffers, qsbs, nextOp,
                           awaiting, nextFeed>>

\* "create-media-source"; throws: new MediaSource() throws.
OnCreateMediaSource(contentId, mediaSourceId, throws) ==
    /\ started
    /\ Did("create-media-source", contentId, mediaSourceId, 0)
    /\ IF ~IsCurrentContent(content, contentId) THEN Dropped
       ELSE IF throws
       THEN /\ NoChannelStep
            /\ posted' = <<[type |-> "create-media-source-error",
                            mediaSourceId |-> mediaSourceId]>>
            /\ raised' = FALSE
            /\ UNCHANGED state
       ELSE /\ LET b == bindMediaSource(mediaSources, video, mediaSourceId)
               IN  /\ mediaSources' = b.mediaSources
                   /\ video' = b.video
                   /\ content' = [content EXCEPT
                          !.mediaSourceId = mediaSourceId,
                          !.mediaSource = Len(mediaSources) + 1,
                          !.disposeMediaSource = b.disposeMediaSource,
                          !.sourceBuffers = <<>>,
                          !.stopPlaybackObservations = 0]
            /\ NoChannelStep
            /\ posted' = <<>>
            /\ raised' = FALSE
            /\ UNCHANGED <<initializationStatus, worker, started, mayStillReject,
                           promise, nextContentId, sourceBuffers, qsbs, nextOp,
                           awaiting, feeds, nextFeed>>

\* "media-offset-update"
OnMediaOffsetUpdate(contentId, offset) ==
    /\ started
    /\ Did("media-offset-update", contentId, 0, 0)
    /\ IF ~IsCurrentContent(content, contentId) THEN Dropped
       ELSE /\ content' = [content EXCEPT !.mediaOffset = offset]
            /\ NoChannelStep
            /\ posted' = <<>>
            /\ raised' = FALSE
            /\ UNCHANGED <<initializationStatus, worker, started, mayStillReject,
                           promise, nextContentId, video, mediaSources,
                           sourceBuffers, qsbs, nextOp, awaiting, feeds, nextFeed>>

\* "content-warning"
OnContentWarning(contentId) ==
    /\ started
    /\ Did("content-warning", contentId, 0, 0)
    /\ Dropped

\* "content-info-update"
OnContentInfoUpdate(contentId, minimumPosition, maximumPosition) ==
    /\ started
    /\ Did("content-info-update", contentId, 0, 0)
    /\ IF ~IsCurrentContent(content, contentId) THEN Dropped
       ELSE /\ content' = [content EXCEPT !.minimumPosition = minimumPosition,
                                          !.maximumPosition = minimumPosition]
            /\ NoChannelStep
            /\ posted' = <<>>
            /\ raised' = FALSE
            /\ UNCHANGED <<initializationStatus, worker, started, mayStillReject,
                           promise, nextContentId, video, mediaSources,
                           sourceBuffers, qsbs, nextOp, awaiting, feeds, nextFeed>>


\* ------------------------------------------------- worker.onmessage: MediaSource scope
\* "seek"
OnSeek(mediaSourceId, position) ==
    /\ started
    /\ Did("seek", 0, mediaSourceId, 0)
    /\ IF ~IsCurrentMediaSource(content, mediaSourceId) THEN Dropped
       ELSE /\ video' = [video EXCEPT !.currentTime = position]
            /\ NoChannelStep
            /\ posted' = <<>>
            /\ raised' = FALSE
            /\ UNCHANGED <<initializationStatus, worker, started, mayStillReject,
                           promise, nextContentId, content, mediaSources,
                           sourceBuffers, qsbs, nextOp, awaiting, feeds, nextFeed>>

\* mediaSource.duration = d, mediaSource.endOfStream() and
\* mediaSource.addSourceBuffer(type) throw on a MediaSource that is not open.
NotOpen(mss, m) == mss[m].readyState # "open"

\* "update-media-source-duration"; throws: the setter throws on its own.
OnUpdateMediaSourceDuration(mediaSourceId, duration, throws) ==
    /\ started
    /\ Did("update-media-source-duration", 0, mediaSourceId, 0)
    /\ IF ~IsCurrentMediaSource(content, mediaSourceId) THEN Dropped
       ELSE IF content.mediaSource = 0 THEN Dropped
       ELSE IF throws \/ NotOpen(mediaSources, content.mediaSource)
       THEN /\ NoChannelStep
            /\ posted' = <<[type |-> "update-media-source-duration-error",
                            mediaSourceId |-> mediaSourceId]>>
            /\ raised' = FALSE
            /\ UNCHANGED state
       ELSE /\ mediaSources' = [mediaSources EXCEPT
                                    ![content.mediaSource].duration = duration]
            /\ NoChannelStep
            /\ posted' = <<>>
            /\ raised' = FALSE
            /\ UNCHANGED <<initializationStatus, worker, started, mayStillReject,
                           promise, nextContentId, content, video,
                           sourceBuffers, qsbs, nextOp, awaiting, feeds, nextFeed>>

\* "clear-media-source"
OnClearMediaSource(mediaSourceId) ==
    /\ started
    /\ Did("clear-media-source", 0, mediaSourceId, 0)
    /\ IF ~IsCurrentMediaSource(content, mediaSourceId) THEN Dropped
       ELSE LET d == RunDispose(mediaSources, sourceBuffers, video,
                                content.disposeMediaSource)
                c == clearElementSrc(d.mediaSources, d.video)
            IN  /\ mediaSources' = c.mediaSources
                /\ video' = c.video
                /\ NoChannelStep
                /\ posted' = <<>>
                /\ raised' = FALSE
                /\ UNCHANGED <<initializationStatus, worker, started,
                               mayStillReject, promise, nextContentId, content,
                               sourceBuffers, qsbs, nextOp, awaiting, feeds, nextFeed>>

\* An addSourceBuffer that hands out the same SourceBuffer object every time.
AddSourceBufferShared(sbs) == 1

\* mediaSource.addSourceBuffer(contentType): the SourceBuffer object created.
AddSourceBuffer(sbs) == Len(sbs) + 1

\* An error message that reports every failure as one of addSourceBuffer.
CreateSourceBufferErrorOneCode(mediaSourceId, sourceBufferId, code) ==
    [type |-> "create-source-buffer-error", mediaSourceId |-> mediaSourceId,
     sourceBufferId |-> sourceBufferId, code |-> "AddSourceBufferError"]

\* "create-source-buffer-error"
CreateSourceBufferError(mediaSourceId, sourceBufferId, code) ==
    [type |-> "create-source-buffer-error", mediaSourceId |-> mediaSourceId,
     sourceBufferId |-> sourceBufferId, code |-> code]

\* "create-source-buffer"; throws: addSourceBuffer throws on its own.
OnCreateSourceBuffer(mediaSourceId, sourceBufferId, throws) ==
    /\ started
    /\ Did("create-source-buffer", 0, mediaSourceId, sourceBufferId)
    /\ IF ~IsCurrentMediaSource(content, mediaSourceId) THEN Dropped
       ELSE IF content.mediaSource = 0
       THEN /\ NoChannelStep
            /\ posted' = <<CreateSourceBufferError(mediaSourceId, sourceBufferId,
                                                    "NoMediaSource")>>
            /\ raised' = FALSE
            /\ UNCHANGED state
       ELSE IF throws \/ NotOpen(mediaSources, content.mediaSource)
       THEN /\ NoChannelStep
            /\ posted' = <<CreateSourceBufferError(mediaSourceId, sourceBufferId,
                                                    "AddSourceBufferError")>>
            /\ raised' = FALSE
            /\ UNCHANGED state
       ELSE /\ LET p == AddSourceBuffer(sourceBuffers)
                   q == Len(qsbs) + 1
               IN  /\ sourceBuffers' =
                          IF p > Len(sourceBuffers)
                          THEN Append(sourceBuffers,
                                      [ms |-> content.mediaSource, busy |-> 0,
                                       sourceBufferId |-> sourceBufferId])
                          ELSE sourceBuffers
                   /\ mediaSources' = [mediaSources EXCEPT
                          ![content.mediaSource].buffers = @ \cup {p}]
                   /\ qsbs' = Append(qsbs, NewQueuedSourceBuffer(p))
                   /\ content' = [content EXCEPT !.sourceBuffers = Append(@,
                          [sourceBufferId |-> sourceBufferId,
                           queuedSourceBuffer |-> q])]
            /\ NoChannelStep
            /\ posted' = <<>>
            /\ raised' = FALSE
            /\ UNCHANGED <<initializationStatus, worker, started, mayStillReject,
                           promise, nextContentId, video, nextOp, awaiting, feeds, nextFeed>>

\* sourceBuffers.find(({ sourceBufferId }) => sourceBufferId === id):
\* the QueuedSourceBuffer of the first matching entry, 0 when there is none.
FindSourceBuffer(c, sourceBufferId) ==
    LET hits == {i \in 1..Len(c.sourceBuffers) :
                     c.sourceBuffers[i].sourceBufferId = sourceBufferId}
    IN  IF hits = {} THEN 0
        ELSE c.sourceBuffers[CHOOSE i \in hits : \A j \in hits : i <= j].queuedSourceBuffer

\* The .then() callback of an operation: "source-buffer-updated".
UpdatedMessage(o) ==
    [type |-> "source-buffer-updated", mediaSourceId |-> o.mediaSourceId,
     sourceBufferId |-> o.sourceBufferId]

\* An error handler that sends the mediaSourceId in place of the sourceBufferId.
ErrorMessageOfMediaSource(o) ==
    [type |-> "source-buffer-error", sourceBufferId |-> o.mediaSourceId]

\* handleAppendBufferError / handleRemoveBufferError: "source-buffer-error".
ErrorMessage(o) ==
    [type |-> "source-buffer-error", sourceBufferId |-> o.sourceBufferId]

IsResolved(e) == e.ok
IsRejected(e) == ~e.ok

\* Callbacks run with the rejections first.
CallbackOrderCatchFirst(settlements) ==
    SelectSeq(settlements, IsRejected) \o SelectSeq(settlements, IsResolved)

\* Callbacks of a promise chain that has no .catch().
CallbackOrderNoCatch(settlements) == SelectSeq(settlements, IsResolved)

\* Order in which the callbacks of the promises settled by one step run:
\* .then() reacts one microtask after the settlement, .catch() two.
CallbackOrder(settlements) ==
    SelectSeq(settlements, IsResolved) \o SelectSeq(settlements, IsRejected)

\* What the callbacks of the settled promises post, in the order they run.
CompletionMessages(settlements) ==
    LET run == CallbackOrder(settlements)
    IN  [i \in 1..Len(run) |->
            IF run[i].ok THEN UpdatedMessage(run[i].op) ELSE ErrorMessage(run[i].op)]

\* The operations of channel q whose callbacks ran, in that order, each with
\* the kind of message it posted.
CompletionRecords(settlements, q) ==
    LET run == CallbackOrder(settlements)
    IN  [i \in 1..Len(run) |->
            [op |-> run[i].op.op,
             qsb |-> q,
             type |-> IF run[i].ok THEN "source-buffer-updated"
                      ELSE "source-buffer-error"]]

IsAwaited(a) == \A i \in 1..Len(settled') : settled'[i].op # a.op

\* The effect of an operation of channel q on the state, callbacks included;
\* accepted is what the step adds to the operations awaiting their completion.
Settle(r, q, accepted) ==
    /\ qsbs' = r.w.qsbs
    /\ sourceBuffers' = r.w.sourceBuffers
    /\ posted' = CompletionMessages(r.settled)
    /\ settled' = CompletionRecords(r.settled, q)
    /\ submitted' = r.submitted
    /\ awaiting' = SelectSeq(
           [i \in 1..Len(awaiting \o accepted) |->
               [(awaiting \o accepted)[i] EXCEPT
                   !.started = @ \/ (awaiting \o accepted)[i].op \in r.submitted]],
           IsAwaited)

\* "append-buffer" and "remove-buffer"; throws: the primitive throws when called.
OnBufferOperation(kind, mediaSourceId, sourceBufferId, throws) ==
    /\ started
    /\ Did(kind, 0, mediaSourceId, sourceBufferId)
    /\ IF ~IsCurrentMediaSource(content, mediaSourceId) THEN Dropped
       ELSE IF FindSourceBuffer(content, sourceBufferId) = 0 THEN Dropped
       ELSE /\ LET q == FindSourceBuffer(content, sourceBufferId)
                   o == [op |-> nextOp, mediaSourceId |-> mediaSourceId,
                         sourceBufferId |-> sourceBufferId]
               IN  Settle(Enqueue(World, mediaSources, q, o, throws), q,
                          <<[op |-> nextOp, qsb |-> q, started |-> FALSE]>>)
            /\ nextOp' = nextOp + 1
            /\ raised' = FALSE
            /\ UNCHANGED <<initializationStatus, worker, started, mayStillReject,
                           promise, nextContentId, content, video, mediaSources,
                           feeds, nextFeed>>

OnAppendBuffer(mediaSourceId, sourceBufferId, throws) ==
    OnBufferOperation("append-buffer", mediaSourceId, sourceBufferId, throws)

OnRemoveBuffer(mediaSourceId, sourceBufferId, throws) ==
    OnBufferOperation("remove-buffer", mediaSourceId, sourceBufferId, throws)

\* observePlayback(videoElement, mediaSourceId, cb): a new feed.
observePlayback(fs, n, mediaSourceId) ==
    fs \cup {[feed |-> n, mediaSourceId |-> mediaSourceId]}

\* "start-playback-observation"
OnStartPlaybackObservation(mediaSourceId) ==
    /\ started
    /\ Did("start-playback-observation", 0, mediaSourceId, 0)
    /\ IF ~IsCurrentMediaSource(content, mediaSourceId) THEN Dropped
       ELSE /\ feeds' = observePlayback(
                   StopFeed(feeds, content.stopPlaybackObservations),
                   nextFeed, mediaSourceId)
            /\ nextFeed' = nextFeed + 1
            /\ content' = [content EXCEPT !.stopPlaybackObservations = nextFeed]
            /\ NoChannelStep
            /\ posted' = <<>>
            /\ raised' = FALSE
            /\ UNCHANGED <<initializationStatus, worker, started, mayStillReject,
                           promise, nextContentId, video, mediaSources,
                           sourceBuffers, qsbs, nextOp, awaiting>>

\* "stop-playback-observation"
OnStopPlaybackObservation(mediaSourceId) ==
    /\ started
    /\ Did("stop-playback-observation", 0, mediaSourceId, 0)
    /\ IF ~IsCurrentMediaSource(content, mediaSourceId) THEN Dropped
       ELSE /\ feeds' = StopFeed(feeds, content.stopPlaybackObservations)
            /\ content' = [content EXCEPT !.stopPlaybackObservations = 0]
            /\ NoChannelStep
            /\ posted' = <<>>
            /\ raised' = FALSE
            /\ UNCHANGED <<initializationStatus, worker, started, mayStillReject,
                           promise, nextContentId, video, mediaSources,
                           sourceBuffers, qsbs, nextOp, awaiting, nextFeed>>

\* endOfStream() also throws while a SourceBuffer of the MediaSource updates.
Updating(mss, sbs, m) == \E p \in mss[m].buffers : sbs[p].busy > 0

\* "end-of-stream"; throws: endOfStream() throws on its own.
OnEndOfStream(mediaSourceId, throws) ==
    /\ started
    /\ Did("end-of-stream", 0, mediaSourceId, 0)
    /\ IF ~IsCurrentMediaSource(content, mediaSourceId) THEN Dropped
       ELSE IF content.mediaSource = 0
       THEN /\ NoChannelStep
            /\ posted' = <<[type |-> "end-of-stream-error",
                            mediaSourceId |-> mediaSourceId,
                            code |-> "NoMediaSource"]>>
            /\ raised' = FALSE
            /\ UNCHANGED state
       ELSE IF \/ throws
               \/ NotOpen(mediaSources, content.mediaSource)
               \/ Updating(mediaSources, sourceBuffers, content.mediaSource)
       THEN /\ NoChannelStep
            /\ posted' = <<[type |-> "end-of-stream-error",
                            mediaSourceId |-> mediaSourceId,
                            code |-> "EndOfStreamError"]>>
            /\ raised' = FALSE
            /\ UNCHANGED state
       ELSE /\ mediaSources' = [mediaSources EXCEPT
                   ![content.mediaSource] = [@ EXCEPT
                       !.readyState = "ended",
                       !.events = @ \cup {"sourceended"}]]
            /\ NoChannelStep
            /\ posted' = <<>>
            /\ raised' = FALSE
            /\ UNCHANGED <<initializationStatus, worker, started, mayStillReject,
                           promise, nextContentId, content, video,
                           sourceBuffers, qsbs, nextOp, awaiting, feeds, nextFeed>>


\* ------------------------------------------------- notifications
\* The media element opens the MediaSource attached to it.
SurfaceOpens(m) ==
    /\ video.src = m
    /\ mediaSources[m].readyState = "closed"
    /\ Did("surface-open", 0, mediaSources[m].mediaSourceId, 0)
    /\ mediaSources' = [mediaSources EXCEPT ![m] = [@ EXCEPT
           !.readyState = "open", !.events = @ \cup {"sourceopen"}]]
    /\ NoChannelStep
    /\ posted' = <<>>
    /\ raised' = FALSE
    /\ UNCHANGED <<initializationStatus, worker, started, mayStillReject, promise,
                   nextContentId, content, video, sourceBuffers, qsbs, nextOp,
                   awaiting, feeds, nextFeed>>

\* Listeners registered under each other's event.
ReadyStateOfSwapped(event) ==
    IF event = "sourceopen" THEN "Closed"
    ELSE IF event = "sourceended" THEN "Ended" ELSE "Open"

ReadyStateOf(event) ==
    IF event = "sourceopen" THEN "Open"
    ELSE IF event = "sourceended" THEN "Ended" ELSE "Closed"

\* Listeners that read the mediaSourceId of the current content when they run.
StateChangedMessageOfCurrent(mediaSourceId, event) ==
    [type |-> "media-source-state-changed",
     mediaSourceId |-> IF content = NoContent THEN 0 ELSE content.mediaSourceId,
     state |-> ReadyStateOf(event)]

\* onMediaSourceOpen / onMediaSourceEnded / onMediaSourceClose
StateChangedMessage(mediaSourceId, event) ==
    [type |-> "media-source-state-changed", mediaSourceId |-> mediaSourceId,
     state |-> ReadyStateOf(event)]

\* A queued event of MediaSource m is dispatched to the listeners still registered.
Notify(m, event) ==
    /\ event \in mediaSources[m].events
    /\ Did(event, 0, mediaSources[m].mediaSourceId, 0)
    /\ mediaSources' = [mediaSources EXCEPT ![m].events = @ \ {event}]
    /\ NoChannelStep
    /\ posted' = IF mediaSources[m].listeners
                 THEN <<StateChangedMessage(mediaSources[m].mediaSourceId, event)>>
                 ELSE <<>>
    /\ raised' = FALSE
    /\ UNCHANGED <<initializationStatus, worker, started, mayStillReject, promise,
                   nextContentId, content, video, sourceBuffers, qsbs, nextOp,
                   awaiting, feeds, nextFeed>>

\* The primitive ends the operation in flight on a channel; the promise
\* callbacks registered by the append-buffer / remove-buffer handler run.
PrimitiveCompletes(q, ok, throws) ==
    /\ qsbs[q].pending # NoOp
    /\ Did(IF ok THEN "updateend" ELSE "error", 0, 0, 0)
    /\ Settle(Complete(World, mediaSources, q, ok, throws), q, <<>>)
    /\ raised' = FALSE
    /\ UNCHANGED <<initializationStatus, worker, started, mayStillReject, promise,
                   nextContentId, content, video, mediaSources, nextOp, feeds,
                   nextFeed>>

\* A running observation feed emits a sample.
Tick(f) ==
    /\ f \in feeds
    /\ Did("tick", 0, f.mediaSourceId, 0)
    /\ NoChannelStep
    /\ posted' = <<[type |-> "observation", mediaSourceId |-> f.mediaSourceId]>>
    /\ raised' = FALSE
    /\ UNCHANGED state

\* ------------------------------------------------- inputs
\* Each message of the worker, with any value the worker may give it.
AttachMediaSourceMessage ==
    \E c \in ContentIds, id \in MsIds, source \in {"handle", "src", "none"} :
        OnAttachMediaSource(c, id, source)

CreateMediaSourceMessage ==
    \E c \in ContentIds, id \in MsIds, throws \in BOOLEAN :
        OnCreateMediaSource(c, id, throws)

MediaOffsetUpdateMessage ==
    \E c \in ContentIds, offset \in Positions : OnMediaOffsetUpdate(c, offset)

ContentWarningMessage == \E c \in ContentIds : OnContentWarning(c)

ContentInfoUpdateMessage ==
    \E c \in ContentIds, min \in Positions, max \in Positions :
        OnContentInfoUpdate(c, min, max)

SeekMessage == \E id \in MsIds, position \in Positions : OnSeek(id, position)

UpdateMediaSourceDurationMessage ==
    \E id \in MsIds, duration \in Positions, throws \in BOOLEAN :
        OnUpdateMediaSourceDuration(id, duration, throws)

ClearMediaSourceMessage == \E id \in MsIds : OnClearMediaSource(id)

CreateSourceBufferMessage ==
    \E id \in MsIds, sb \in SbIds, throws \in BOOLEAN :
        OnCreateSourceBuffer(id, sb, throws)

AppendBufferMessage ==
    \E id \in MsIds, sb \in SbIds, throws \in BOOLEAN : OnAppendBuffer(id, sb, throws)

RemoveBufferMessage ==
    \E id \in MsIds, sb \in SbIds, throws \in BOOLEAN : OnRemoveBuffer(id, sb, throws)

StartPlaybackObservationMessage == \E id \in MsIds : OnStartPlaybackObservation(id)

StopPlaybackObservationMessage == \E id \in MsIds : OnStopPlaybackObservation(id)

EndOfStreamMessage == \E id \in MsIds, throws \in BOOLEAN : OnEndOfStream(id, throws)

UnexpectedMessage == \E data \in Shapes : OnUnexpectedMessage(data)

\* The offsets the worker may announce and the positions the application may
\* seek to: numbers, the positions being integers.
Offsets == {x \in 0..MaxOffset : Representable(x)}

SeekPositions == {x \in 0..MaxSeek : Representable(x)}

MediaOffsetMessage ==
    \E c \in ContentIds, offset \in Offsets : OnMediaOffsetUpdate(c, offset)

SeekCall == \E position \in SeekPositions : Seek(position)

\* What the surface, the primitives and the feeds do on their own.
SurfaceOpening == \E m \in 1..Len(mediaSources) : SurfaceOpens(m)

Notification ==
    \E m \in 1..Len(mediaSources),
       event \in {"sourceopen", "sourceended", "sourceclose"} : Notify(m, event)

PrimitiveCompletion ==
    \E q \in 1..Len(qsbs), ok \in BOOLEAN, throws \in BOOLEAN :
        PrimitiveCompletes(q, ok, throws)

Sampling == \E f \in feeds : Tick(f)

\* ------------------------------------------------- specifications
\* The part of the behaviours a check explores: that many contents loaded,
\* MediaSources and SourceBuffers created, operations accepted, feeds started.
Within(nContents, nMediaSources, nSourceBuffers, nOps, nFeeds) ==
    /\ nextContentId <= nContents + 1
    /\ Len(mediaSources) <= nMediaSources
    /\ Len(qsbs) <= nSourceBuffers
    /\ nextOp <= nOps + 1
    /\ nextFeed <= nFeeds + 1

\* The whole player.
Next ==
    \/ Initialize
    \/ OnInitialized
    \/ OnInitializationError
    \/ OnWorkerError
    \/ UnexpectedMessage
    \/ LoadContent
    \/ OtherPlayerLoadContent
    \/ Stop
    \/ Dispose
    \/ SeekCall
    \/ MediaOffsetMessage
    \/ AttachMediaSourceMessage
    \/ CreateMediaSourceMessage
    \/ MediaOffsetUpdateMessage
    \/ ContentWarningMessage
    \/ ContentInfoUpdateMessage
    \/ SeekMessage
    \/ UpdateMediaSourceDurationMessage
    \/ ClearMediaSourceMessage
    \/ CreateSourceBufferMessage
    \/ AppendBufferMessage
    \/ RemoveBufferMessage
    \/ StartPlaybackObservationMessage
    \/ StopPlaybackObservationMessage
    \/ EndOfStreamMessage
    \/ SurfaceOpening
    \/ Notification
    \/ PrimitiveCompletion
    \/ Sampling

\* The messages scoped by a mediaSourceId, on one content and one MediaSource.
DispatchContents == 1
DispatchMediaSources == 1
DispatchSourceBuffers == 1
DispatchOps == 1
DispatchFeeds == 1

DispatchWithin ==
    Within(DispatchContents, DispatchMediaSources, DispatchSourceBuffers,
           DispatchOps, DispatchFeeds)

DispatchNext ==
    \/ Initialize /\ DispatchWithin'
    \/ LoadContent /\ DispatchWithin'
    \/ AttachMediaSourceMessage /\ DispatchWithin'
    \/ CreateMediaSourceMessage /\ DispatchWithin'
    \/ SeekMessage /\ DispatchWithin'
    \/ UpdateMediaSourceDurationMessage /\ DispatchWithin'
    \/ ClearMediaSourceMessage /\ DispatchWithin'
    \/ CreateSourceBufferMessage /\ DispatchWithin'
    \/ AppendBufferMessage /\ DispatchWithin'
    \/ RemoveBufferMessage /\ DispatchWithin'
    \/ StartPlaybackObservationMessage /\ DispatchWithin'
    \/ StopPlaybackObservationMessage /\ DispatchWithin'
    \/ EndOfStreamMessage /\ DispatchWithin'
    \/ SurfaceOpening /\ DispatchWithin'
    \/ PrimitiveCompletion /\ DispatchWithin'

DispatchSpec == Init /\ [][DispatchNext]_vars

\* The messages scoped by a contentId, over two contents loaded in turn.
ContentContents == 2
ContentMediaSources == 1
ContentSourceBuffers == 1
ContentFeeds == 1

ContentWithin ==
    Within(ContentContents, ContentMediaSources, ContentSourceBuffers, 0,
           ContentFeeds)

ContentNext ==
    \/ Initialize /\ ContentWithin'
    \/ LoadContent /\ ContentWithin'
    \/ AttachMediaSourceMessage /\ ContentWithin'
    \/ CreateMediaSourceMessage /\ ContentWithin'
    \/ MediaOffsetUpdateMessage /\ ContentWithin'
    \/ ContentWarningMessage /\ ContentWithin'
    \/ ContentInfoUpdateMessage /\ ContentWithin'
    \/ CreateSourceBufferMessage /\ ContentWithin'
    \/ StartPlaybackObservationMessage /\ ContentWithin'
    \/ SurfaceOpening /\ ContentWithin'

ContentSpec == Init /\ [][ContentNext]_vars

\* The queues of the channels of one pipeline: creation, operations,
\* completions and teardown, in any order.
QueueContents == 1
QueueMediaSources == 1
QueueSourceBuffers == 2
QueueOps == 3

QueueWithin ==
    Within(QueueContents, QueueMediaSources, QueueSourceBuffers, QueueOps, 0)

QueueNext ==
    \/ Initialize /\ QueueWithin'
    \/ LoadContent /\ QueueWithin'
    \/ CreateMediaSourceMessage /\ QueueWithin'
    \/ ClearMediaSourceMessage /\ QueueWithin'
    \/ CreateSourceBufferMessage /\ QueueWithin'
    \/ AppendBufferMessage /\ QueueWithin'
    \/ RemoveBufferMessage /\ QueueWithin'
    \/ SurfaceOpening /\ QueueWithin'
    \/ PrimitiveCompletion /\ QueueWithin'

QueueSpec == Init /\ [][QueueNext]_vars

\* The primitive ends every operation it started.
Completes(q) ==
    /\ q \in 1..Len(qsbs)
    /\ \E ok \in BOOLEAN, throws \in BOOLEAN : PrimitiveCompletes(q, ok, throws)

FairQueueSpec ==
    QueueSpec /\ \A q \in 1..QueueSourceBuffers : WF_vars(Completes(q))

\* The life of the player and of its contents: the API, the answers of the
\* worker to "init", the pipeline of a content, its feed and its surface.
SessionContents == 2
SessionMediaSources == 1
SessionFeeds == 2

SessionWithin ==
    Within(SessionContents, SessionMediaSources, 0, 0, SessionFeeds)

SessionNext ==
    \/ Initialize /\ SessionWithin'
    \/ OnInitialized /\ SessionWithin'
    \/ OnInitializationError /\ SessionWithin'
    \/ OnWorkerError /\ SessionWithin'
    \/ UnexpectedMessage /\ SessionWithin'
    \/ LoadContent /\ SessionWithin'
    \/ Stop /\ SessionWithin'
    \/ Dispose /\ SessionWithin'
    \/ CreateMediaSourceMessage /\ SessionWithin'
    \/ ClearMediaSourceMessage /\ SessionWithin'
    \/ StartPlaybackObservationMessage /\ SessionWithin'
    \/ StopPlaybackObservationMessage /\ SessionWithin'
    \/ SurfaceOpening /\ SessionWithin'
    \/ Notification /\ SessionWithin'
    \/ Sampling /\ SessionWithin'

SessionSpec == Init /\ [][SessionNext]_vars

\* The contents of the players of one realm: the identifiers they are given
\* and the messages that carry them.
RealmContents == 3

RealmWithin == Within(RealmContents, 0, 0, 0, 0)

RealmNext ==
    \/ Initialize /\ RealmWithin'
    \/ LoadContent /\ RealmWithin'
    \/ OtherPlayerLoadContent /\ RealmWithin'
    \/ Stop /\ RealmWithin'
    \/ MediaOffsetUpdateMessage /\ RealmWithin'
    \/ ContentInfoUpdateMessage /\ RealmWithin'

RealmSpec == Init /\ [][RealmNext]_vars

\* The pipelines of a content, created one after the other on the main thread
\* or attached by the worker, with their surface and their feed.
PipelineContents == 1
PipelineMediaSources == 2
PipelineFeeds == 1

PipelineWithin ==
    Within(PipelineContents, PipelineMediaSources, 0, 0, PipelineFeeds)

PipelineNext ==
    \/ Initialize /\ PipelineWithin'
    \/ LoadContent /\ PipelineWithin'
    \/ AttachMediaSourceMessage /\ PipelineWithin'
    \/ CreateMediaSourceMessage /\ PipelineWithin'
    \/ ClearMediaSourceMessage /\ PipelineWithin'
    \/ StartPlaybackObservationMessage /\ PipelineWithin'
    \/ StopPlaybackObservationMessage /\ PipelineWithin'
    \/ SurfaceOpening /\ PipelineWithin'
    \/ Notification /\ PipelineWithin'
    \/ Sampling /\ PipelineWithin'

PipelineSpec == Init /\ [][PipelineNext]_vars

\* A pipeline superseded by another one while an operation of one of its
\* channels is in flight.
SupersededContents == 1
SupersededMediaSources == 2
SupersededSourceBuffers == 2
SupersededOps == 1

SupersededWithin ==
    Within(SupersededContents, SupersededMediaSources, SupersededSourceBuffers,
           SupersededOps, 0)

SupersededNext ==
    \/ Initialize /\ SupersededWithin'
    \/ LoadContent /\ SupersededWithin'
    \/ CreateMediaSourceMessage /\ SupersededWithin'
    \/ CreateSourceBufferMessage /\ SupersededWithin'
    \/ AppendBufferMessage /\ SupersededWithin'
    \/ RemoveBufferMessage /\ SupersededWithin'
    \/ SurfaceOpening /\ SupersededWithin'
    \/ PrimitiveCompletion /\ SupersededWithin'

SupersededSpec == Init /\ [][SupersededNext]_vars

\* The position of a content: the offset the worker announces, the seeks of
\* the application and of the worker.
PositionContents == 1

PositionWithin == Within(PositionContents, 0, 0, 0, 0)

PositionNext ==
    \/ Initialize /\ PositionWithin'
    \/ LoadContent /\ PositionWithin'
    \/ Stop /\ PositionWithin'
    \/ SeekCall /\ PositionWithin'
    \/ MediaOffsetMessage /\ PositionWithin'

PositionSpec == Init /\ [][PositionNext]_vars

Spec == Init /\ [][Next]_vars

\* ------------------------------------------------- properties
MediaSourceScoped ==
    {"seek", "update-media-source-duration", "clear-media-source",
     "create-source-buffer", "append-buffer", "remove-buffer",
     "start-playback-observation", "stop-playback-observation", "end-of-stream"}

ContentScoped ==
    {"attach-media-source", "create-media-source", "media-offset-update",
     "content-warning", "content-info-update"}

BufferOperations == {"append-buffer", "remove-buffer"}

\* C1: a message carrying a mediaSourceId that is not the one of the current
\* content, or handled while no content is loaded, changes nothing of the
\* player or of the surface, posts nothing to the worker and raises nothing.
MismatchedMediaSourceIdIsNoOp ==
    [][(/\ last'.type \in MediaSourceScoped
        /\ \/ content = NoContent
           \/ content.mediaSourceId # last'.mediaSourceId)
       => (UNCHANGED state /\ posted' = <<>> /\ ~raised')]_vars

\* C1: such a message was just handled while a pipeline with channels, a
\* feed and an operation in flight was live under another id.
MismatchedMediaSourceIdSeen ==
    /\ last.type \in MediaSourceScoped
    /\ content # NoContent
    /\ content.mediaSourceId \notin {0, last.mediaSourceId}
    /\ content.sourceBuffers # <<>>
    /\ feeds # {}
    /\ awaiting # <<>>

\* C2: a message carrying a contentId that is not the one of the current
\* content, or handled while no content is loaded, is dropped: the content
\* record (mediaSourceId, mediaSource, channels, feed, offset, positions),
\* the feeds and the surface are unchanged and nothing is posted.
MismatchedContentIdIsDropped ==
    [][(/\ last'.type \in ContentScoped
        /\ \/ content = NoContent
           \/ content.contentId # last'.contentId)
       => (UNCHANGED state /\ posted' = <<>>)]_vars

\* C2: a message for the first content was just handled after a second
\* content was loaded and given a pipeline, a channel and a feed.
StaleContentIdSeen ==
    /\ last.type \in ContentScoped
    /\ content # NoContent
    /\ content.contentId = 2
    /\ last.contentId = 1
    /\ content.mediaSourceId # 0
    /\ content.sourceBuffers # <<>>
    /\ feeds # {}

\* The pipeline known under mediaSourceId is the one of the current content
\* and its dispose callback ran: clear-media-source was processed for it.
Cleared(mediaSourceId) ==
    /\ IsCurrentMediaSource(content, mediaSourceId)
    /\ content.mediaSource # 0
    /\ ~mediaSources[content.mediaSource].listeners

\* C3: after clear-media-source was processed for a pipeline, an
\* update-media-source-duration carrying its mediaSourceId is a no-op: no
\* duration is set, no error is posted, nothing changes.
DurationUpdateAfterClearIsNoOp ==
    [][(last'.type = "update-media-source-duration" /\ Cleared(last'.mediaSourceId))
       => (UNCHANGED state /\ posted' = <<>>)]_vars

\* C4: once clear-media-source was accepted, once or several times in a row,
\* the pipeline is disposed, the channel list of the content is empty, the
\* surface is detached, and nothing was posted or raised.
ClearLeavesNothing ==
    (last.type = "clear-media-source"
        /\ IsCurrentMediaSource(content, last.mediaSourceId))
    => /\ content.sourceBuffers = <<>>
       /\ video.src = 0
       /\ content.mediaSource # 0 => ~mediaSources[content.mediaSource].listeners
       /\ posted = <<>>
       /\ ~raised

\* C5: no SourceBuffer has more than one operation in flight.
AtMostOneInFlight ==
    \A p \in 1..Len(sourceBuffers) : sourceBuffers[p].busy <= 1

\* C5: an operation is in flight on a channel while another one waits.
OneInFlightOneQueued ==
    \E q \in 1..Len(qsbs) :
        /\ qsbs[q].pending # NoOp
        /\ qsbs[q].queue # <<>>
        /\ sourceBuffers[qsbs[q].sourceBuffer].busy = 1

\* The numbers of the operations of channel q in a sequence of records.
OpsOf(records, q) ==
    LET Of(r) == r.qsb = q
        mine == SelectSeq(records, Of)
    IN  [i \in 1..Len(mine) |-> mine[i].op]

IsPrefix(s, t) == Len(s) <= Len(t) /\ \A i \in 1..Len(s) : s[i] = t[i]

\* The operation the step accepts, if any, with its channel.
Accepted ==
    IF nextOp' = nextOp THEN <<>>
    ELSE <<[op |-> nextOp, qsb |-> FindSourceBuffer(content, last'.sourceBufferId)]>>

\* C6: the completion messages a step posts for a channel are those of its
\* oldest operations not completed yet, in the order they were received.
CompletionsInSubmissionOrder ==
    [][\A q \in 1..Len(qsbs) :
          IsPrefix(OpsOf(settled', q), OpsOf(awaiting \o Accepted, q))]_vars

\* C6: one step completed an operation and failed the next one.
UpdatedThenError ==
    /\ Len(settled) >= 2
    /\ settled[1].type = "source-buffer-updated"
    /\ settled[2].type = "source-buffer-error"

\* The completion messages among those a step posted.
IsCompletion(m) == m.type \in {"source-buffer-updated", "source-buffer-error"}

Completions(messages) == SelectSeq(messages, IsCompletion)

In(waiting, o) == \E i \in 1..Len(waiting) : waiting[i].op = o

Awaited(o) == In(awaiting, o)

\* The MediaSource of channel q.
MediaSourceOf(q) == sourceBuffers[qsbs[q].sourceBuffer].ms

TornDown(o) ==
    \E i \in 1..Len(awaiting) :
        /\ awaiting[i].op = o
        /\ ~mediaSources[MediaSourceOf(awaiting[i].qsb)].listeners

\* C7: an operation accepted gets its completion message, unless its pipeline
\* is torn down; a step posts one message per operation it completes, each
\* for an operation that was waiting for it or was just accepted.
AcceptedIsCompletedOnce ==
    /\ \A o \in 1..QueueOps : Awaited(o) ~> (~Awaited(o) \/ TornDown(o))
    /\ [][/\ Len(Completions(posted')) = Len(settled')
          /\ \A i \in 1..Len(settled') :
                /\ \A j \in 1..Len(settled') :
                      settled'[j].op = settled'[i].op => j = i
                /\ \/ Awaited(settled'[i].op)
                   \/ nextOp' # nextOp /\ settled'[i].op = nextOp
                /\ Completions(posted')[i].type = settled'[i].type
                /\ ~In(awaiting', settled'[i].op)]_vars

\* C7: the primitive ended an operation and its completion was posted.
CompletedByPrimitive ==
    /\ last.type \in {"updateend", "error"}
    /\ settled # <<>>
    /\ Len(Completions(posted)) = Len(settled)

\* The sourceBufferId under which channel q was registered.
ChannelId(q) == sourceBuffers[qsbs[q].sourceBuffer].sourceBufferId

\* C8: for an operation that fails a step posts one "source-buffer-error",
\* with the sourceBufferId of its channel, and an operation is given to
\* the primitive once at most.
FailurePostsOneError ==
    [][/\ Len(Completions(posted')) = Len(settled')
       /\ \A i \in 1..Len(settled') :
             settled'[i].type = "source-buffer-error" =>
                /\ Completions(posted')[i] = [type |-> "source-buffer-error",
                          sourceBufferId |-> ChannelId(settled'[i].qsb)]
                /\ \A j \in 1..Len(settled') :
                      settled'[j].op = settled'[i].op => j = i
                /\ ~In(awaiting', settled'[i].op)
       /\ \A o \in submitted' :
             \/ nextOp' # nextOp /\ o = nextOp
             \/ \E i \in 1..Len(awaiting) :
                   awaiting[i].op = o /\ ~awaiting[i].started]_vars

\* C8: the primitive failed an operation, and the operations behind it
\* were rejected with it.
FailedWithOthersQueued ==
    /\ last.type = "error"
    /\ Len(settled) >= 2
    /\ \A i \in 1..Len(settled) : settled[i].type = "source-buffer-error"

\* The operations of channel q that a step failed, and the first of them: the
\* one that failed on its own, the others being those queued behind it.
Failures(records, q) ==
    {records[i].op : i \in {j \in 1..Len(records) :
        records[j].qsb = q /\ records[j].type = "source-buffer-error"}}

FirstFailure(records, q) ==
    records[CHOOSE i \in 1..Len(records) :
        /\ records[i].qsb = q /\ records[i].type = "source-buffer-error"
        /\ \A j \in 1..(i - 1) : records[j].type # "source-buffer-error"].op

\* C9: a faulted channel has nothing queued and nothing in flight, stays
\* faulted, and rejects what it is given without calling the primitive; the
\* operations queued when a channel becomes faulted are rejected unexecuted.
FaultedRejectsLocally ==
    [][\A q \in 1..Len(qsbs) :
          /\ qsbs[q].faulted =>
                /\ qsbs[q].queue = <<>>
                /\ qsbs[q].pending = NoOp
                /\ qsbs'[q] = qsbs[q]
                /\ sourceBuffers'[qsbs[q].sourceBuffer] =
                       sourceBuffers[qsbs[q].sourceBuffer]
                /\ \A i \in 1..Len(settled') :
                      settled'[i].qsb = q =>
                         /\ settled'[i].type = "source-buffer-error"
                         /\ settled'[i].op \notin submitted'
          /\ (~qsbs[q].faulted /\ qsbs'[q].faulted) =>
                /\ \A k \in 1..Len(qsbs[q].queue) :
                      qsbs[q].queue[k].op \in Failures(settled', q)
                /\ Cardinality(Failures(settled', q) \cap submitted') <= 1
                /\ \A o \in Failures(settled', q) \cap submitted' :
                      o = FirstFailure(settled', q)]_vars

\* C9: an operation was just rejected by a faulted channel, while another
\* channel created after the failure has an operation in flight.
RejectedByFaulted ==
    /\ last.type \in BufferOperations
    /\ Len(settled) = 1
    /\ qsbs[settled[1].qsb].faulted
    /\ submitted = {}
    /\ posted = <<[type |-> "source-buffer-error",
                   sourceBufferId |-> last.sourceBufferId]>>
    /\ \E q \in 1..Len(qsbs) : q > settled[1].qsb /\ qsbs[q].pending # NoOp

\* C10: after the teardown of a pipeline no completion message is posted for
\* the operations of its channels, and no append-buffer or remove-buffer
\* carrying its mediaSourceId is executed.
NothingAfterTeardown ==
    /\ \A i \in 1..Len(settled) :
          mediaSources[MediaSourceOf(settled[i].qsb)].listeners
    /\ (/\ last.type \in BufferOperations
        /\ IsCurrentMediaSource(content, last.mediaSourceId)
        /\ FindSourceBuffer(content, last.sourceBufferId) # 0)
       => mediaSources[MediaSourceOf(
              FindSourceBuffer(content, last.sourceBufferId))].listeners

\* C11: when loadContent returns, the pipeline of the previous content is torn
\* down: no feed runs, no MediaSource has its listeners registered, and the
\* surface is detached.
LoadTearsDownPrevious ==
    (last.type = "loadContent" /\ ~raised)
    => /\ feeds = {}
       /\ \A m \in 1..Len(mediaSources) : ~mediaSources[m].listeners
       /\ video.src = 0

\* The step handles a start-playback-observation for the current pipeline.
StartAccepted ==
    /\ last'.type = "start-playback-observation"
    /\ IsCurrentMediaSource(content, last'.mediaSourceId)

\* C12: a start-playback-observation for the current pipeline stops the feed
\* registered before it, if any, and starts one feed: started again, the
\* observation leaves as many feeds as there were, of which one is
\* registered; and a feed posts one observation per sample.
RestartLeavesOneFeed ==
    [][/\ StartAccepted =>
             /\ \A f \in feeds :
                   f.feed = content.stopPlaybackObservations => f \notin feeds'
             /\ Cardinality(feeds' \ feeds) = 1
             /\ \A f \in feeds' \ feeds :
                   /\ f.feed = content'.stopPlaybackObservations
                   /\ f.mediaSourceId = last'.mediaSourceId
             /\ content.stopPlaybackObservations # 0 =>
                   Cardinality(feeds') = Cardinality(feeds)
       /\ last'.type = "tick" =>
             /\ Len(posted') = 1
             /\ posted'[1].type = "observation"
             /\ UNCHANGED feeds]_vars

\* C12: the observation of the current pipeline was started a second time,
\* and one feed runs.
StartedTwice ==
    /\ last.type = "start-playback-observation"
    /\ IsCurrentMediaSource(content, last.mediaSourceId)
    /\ content.stopPlaybackObservations = 2
    /\ Cardinality(feeds) = 1

\* The MediaSource objects whose "sourceopen" event the step dispatches.
Opened ==
    {m \in 1..Len(mediaSources) :
        /\ "sourceopen" \in mediaSources[m].events
        /\ "sourceopen" \notin mediaSources'[m].events}

IsOpenMessage(m) == m.type = "media-source-state-changed" /\ m.state = "Open"

\* C13: the dispatch of the "sourceopen" event of a MediaSource bound by
\* create-media-source posts one media-source-state-changed with its
\* mediaSourceId and the state Open, and no other step posts such a message.
OpenPostsOneStateChange ==
    [][/\ \A m \in Opened :
             mediaSources[m].listeners =>
                posted' = <<[type |-> "media-source-state-changed",
                             mediaSourceId |-> mediaSources[m].mediaSourceId,
                             state |-> "Open"]>>
       /\ Opened = {} => SelectSeq(posted', IsOpenMessage) = <<>>]_vars

\* C13: the open of the pipeline of the current content was just relayed.
OpenRelayed ==
    /\ last.type = "sourceopen"
    /\ content # NoContent
    /\ content.mediaSource # 0
    /\ mediaSources[content.mediaSource].readyState = "open"
    /\ posted = <<[type |-> "media-source-state-changed",
                   mediaSourceId |-> content.mediaSourceId, state |-> "Open"]>>

\* C14: an update-media-source-duration or an end-of-stream for the current
\* pipeline, when its MediaSource was not created on the main thread, is
\* answered by one error message carrying the mediaSourceId.
NoLocalMediaSourceIsReported ==
    [][(/\ last'.type \in {"update-media-source-duration", "end-of-stream"}
        /\ IsCurrentMediaSource(content, last'.mediaSourceId)
        /\ content.mediaSource = 0)
       => /\ Len(posted') = 1
          /\ posted'[1].type \in {"update-media-source-duration-error",
                                  "end-of-stream-error"}
          /\ posted'[1].mediaSourceId = last'.mediaSourceId]_vars

\* C15: a message whose envelope is malformed changes nothing, posts nothing
\* and raises nothing.
MalformedIsRejected ==
    [][last'.type = "malformed"
       => (UNCHANGED state /\ posted' = <<>> /\ ~raised')]_vars

\* C15: a malformed message was just handled while a content had its
\* pipeline and its feed.
MalformedSeen ==
    /\ last.type = "malformed"
    /\ content # NoContent
    /\ content.mediaSource # 0
    /\ feeds # {}

\* What the worker may send.
WorkerMessages ==
    MediaSourceScoped \cup ContentScoped
        \cup {"initialized", "initialization-error", "malformed", "unknown"}

\* C16: the handler of the messages of the worker never raises.
NoMessageRaises == last.type \in WorkerMessages => ~raised

\* C17: the channel list of the current content never holds two entries
\* with the same sourceBufferId.
SourceBufferIdsAreUnique ==
    content # NoContent =>
        \A i \in 1..Len(content.sourceBuffers) :
            \A j \in 1..Len(content.sourceBuffers) :
                content.sourceBuffers[i].sourceBufferId =
                    content.sourceBuffers[j].sourceBufferId => i = j

\* C18: when stop() or dispose() returns, no content is current.
StopLeavesNoContent ==
    (last.type \in {"stop", "dispose"} /\ ~raised) => content = NoContent

\* C19: the promise of initialize is settled by the first of "initialized",
\* "initialization-error" and the error event of the worker, and once
\* settled it never changes.
SettledOnce ==
    [][/\ promise \in {"resolved", "rejected"} => promise' = promise
       /\ promise = "pending" =>
             /\ promise' = "resolved" => last'.type = "initialized"
             /\ promise' = "rejected" =>
                   last'.type \in {"initialization-error", "worker-error"}
             /\ last'.type \in {"initialized", "initialization-error",
                                "worker-error"} => promise' # "pending"]_vars

\* C19: "initialized" was just handled after a failure, and the promise
\* is still rejected.
InitializedAfterFailure ==
    /\ last.type = "initialized"
    /\ promise = "rejected"
    /\ ~mayStillReject

\* C20: loadContent and stop return without throwing only once the promise
\* of initialize is resolved and the player is not disposed.
ApiNeedsInitialized ==
    (last.type \in {"loadContent", "stop"} /\ ~raised)
    => (promise = "resolved" /\ worker)

\* C21: every identifier given by loadContent, to this player or to another
\* one of the realm, is the state of the generator, which only grows and is
\* above the identifier of the current content: an identifier is therefore
\* above every one given before it, and a message carrying an identifier
\* below the one of the current content is dropped.
ContentIdsNeverReused ==
    [][/\ nextContentId' >= nextContentId
       /\ content' # NoContent => content'.contentId < nextContentId'
       /\ (last'.type \in {"loadContent", "other-loadContent"} /\ ~raised') =>
             /\ last'.contentId = nextContentId
             /\ nextContentId' > nextContentId
             /\ content # NoContent => last'.contentId > content.contentId
       /\ (last'.type = "loadContent" /\ ~raised') =>
             content'.contentId = last'.contentId
       /\ (/\ last'.type \in ContentScoped
           /\ content # NoContent
           /\ last'.contentId < content.contentId) => UNCHANGED state]_vars

\* C21: a message carrying the identifier of the first content was just
\* handled while the third content of the realm is the current one.
OlderContentIdSeen ==
    /\ last.type \in ContentScoped
    /\ last.contentId = 1
    /\ content # NoContent
    /\ content.contentId = 3

\* The step changes channel q, its SourceBuffer, or completes one of its
\* operations.
ActsOn(q) ==
    \/ qsbs'[q] # qsbs[q]
    \/ sourceBuffers'[qsbs[q].sourceBuffer] # sourceBuffers[qsbs[q].sourceBuffer]
    \/ \E i \in 1..Len(settled') : settled'[i].qsb = q

\* The operation o is in flight on channel q.
InFlight(q, o) == q \in 1..Len(qsbs) /\ qsbs[q].pending.op = o

\* C22: a step acts on one channel at most, so that what is pending or fails
\* on a channel leaves the queue of the others as it was; an operation
\* received for an idle channel is given to the primitive at once, whatever
\* the other channels do; and an operation in flight ends.
ChannelsAreIndependent ==
    /\ \A q \in 1..QueueSourceBuffers : \A o \in 1..QueueOps :
          InFlight(q, o) ~> ~InFlight(q, o)
    /\ [][/\ \A q1 \in 1..Len(qsbs) : \A q2 \in 1..Len(qsbs) :
                (ActsOn(q1) /\ ActsOn(q2)) => q1 = q2
          /\ \A q \in 1..Len(qsbs) :
                (/\ nextOp' # nextOp
                 /\ q = FindSourceBuffer(content, last'.sourceBufferId)
                 /\ ~qsbs[q].faulted
                 /\ StartsNow(qsbs[q])) => nextOp \in submitted']_vars

\* C22: the operation in flight on a channel just failed while another
\* channel keeps its operation in flight and the one queued behind it.
FailedBesideBusyChannel ==
    /\ last.type = "error"
    /\ \E q1 \in 1..Len(qsbs) : \E q2 \in 1..Len(qsbs) :
          /\ q1 # q2
          /\ settled # <<>>
          /\ settled[1].qsb = q1
          /\ qsbs[q1].faulted
          /\ ~qsbs[q2].faulted
          /\ qsbs[q2].pending # NoOp
          /\ qsbs[q2].queue # <<>>

IsStateChange(m) == m.type = "media-source-state-changed"

\* The MediaSource objects of which the step dispatches an event.
Dispatched ==
    {m \in 1..Len(mediaSources) : mediaSources'[m].events # mediaSources[m].events
                                    /\ mediaSources'[m].events \subseteq mediaSources[m].events}

\* C23: a media-source-state-changed message carries the mediaSourceId of
\* the create-media-source message that created the MediaSource whose event
\* is dispatched: the id is the one of the message when the MediaSource is
\* bound, it is never changed afterwards, and it is the one posted.
StateChangeCarriesOwnId ==
    [][/\ \A i \in 1..Len(posted') :
             IsStateChange(posted'[i]) =>
                \E m \in Dispatched :
                    posted'[i].mediaSourceId = mediaSources[m].mediaSourceId
       /\ \A m \in 1..Len(mediaSources) :
             mediaSources'[m].mediaSourceId = mediaSources[m].mediaSourceId
       /\ Len(mediaSources') > Len(mediaSources) =>
             /\ last'.type = "create-media-source"
             /\ mediaSources'[Len(mediaSources')].mediaSourceId =
                    last'.mediaSourceId]_vars

\* C23: the close of a superseded MediaSource was just relayed under its
\* own mediaSourceId, the current pipeline having another one.
SupersededRelayed ==
    /\ last.type = "sourceclose"
    /\ Len(posted) = 1
    /\ IsStateChange(posted[1])
    /\ posted[1].state = "Closed"
    /\ content # NoContent
    /\ content.mediaSource # 0
    /\ content.mediaSourceId # posted[1].mediaSourceId

\* The step handles a clear-media-source for the current pipeline, whose
\* MediaSource was created on the main thread.
ClearAccepted ==
    /\ last'.type = "clear-media-source"
    /\ IsCurrentMediaSource(content, last'.mediaSourceId)
    /\ content.mediaSource # 0

\* C24: a clear-media-source processed for a pipeline posts nothing and
\* leaves its MediaSource without listeners, for good; an event of a
\* MediaSource without listeners, the close queued by the clear included,
\* posts nothing; so a media-source-state-changed carrying the mediaSourceId
\* of a cleared MediaSource can only come from another MediaSource created
\* under the same id.
ClearSilencesPipeline ==
    [][/\ ClearAccepted =>
             /\ ~mediaSources'[content.mediaSource].listeners
             /\ posted' = <<>>
       /\ \A m \in 1..Len(mediaSources) :
             ~mediaSources[m].listeners => ~mediaSources'[m].listeners
       /\ \A i \in 1..Len(posted') :
             IsStateChange(posted'[i]) =>
                \E m \in Dispatched :
                    /\ mediaSources[m].listeners
                    /\ mediaSources[m].mediaSourceId = posted'[i].mediaSourceId]_vars

\* C24: the close caused by a clear-media-source was just dispatched for the
\* only MediaSource created, and nothing was posted.
CloseAfterClearSeen ==
    /\ last.type = "sourceclose"
    /\ posted = <<>>
    /\ Len(mediaSources) = 1
    /\ ~mediaSources[1].listeners
    /\ mediaSources[1].readyState = "closed"
    /\ video.src = 0
    /\ content # NoContent
    /\ content.mediaSource = 1

\* C25: at most one feed runs, it is the one whose stop callback the current
\* content holds, it observes the pipeline of the current content, and the
\* content holds a stop callback only while its feed runs.
OneFeedOfCurrentPipeline ==
    /\ Cardinality(feeds) <= 1
    /\ \A f \in feeds :
          /\ content # NoContent
          /\ f.feed = content.stopPlaybackObservations
          /\ f.mediaSourceId = content.mediaSourceId
    /\ (content # NoContent /\ content.stopPlaybackObservations # 0) =>
          \E f \in feeds : f.feed = content.stopPlaybackObservations

\* The pipeline of channel q was superseded by one created under another
\* mediaSourceId, which has a channel registered under the same
\* sourceBufferId.
Superseded(q) ==
    /\ content # NoContent
    /\ MediaSourceOf(q) # content.mediaSource
    /\ mediaSources[MediaSourceOf(q)].mediaSourceId # content.mediaSourceId
    /\ FindSourceBuffer(content, ChannelId(q)) # 0

\* C26: the completion message of an operation of a superseded pipeline
\* carries the mediaSourceId of that pipeline, by which the worker tells it
\* from a completion of the channel that has the same sourceBufferId on
\* the current pipeline.
StaleCompletionIsDiscardable ==
    [][\A i \in 1..Len(settled') :
          Superseded(settled'[i].qsb) =>
             /\ "mediaSourceId" \in DOMAIN Completions(posted')[i]
             /\ Completions(posted')[i].mediaSourceId =
                    mediaSources[MediaSourceOf(settled'[i].qsb)].mediaSourceId]_vars

\* The step handles a create-source-buffer for the current pipeline.
CreateSourceBufferAccepted ==
    /\ last'.type = "create-source-buffer"
    /\ IsCurrentMediaSource(content, last'.mediaSourceId)

\* The answer to the create-source-buffer the step handles, with that code.
CreationError(code) ==
    <<[type |-> "create-source-buffer-error",
       mediaSourceId |-> last'.mediaSourceId,
       sourceBufferId |-> last'.sourceBufferId,
       code |-> code]>>

\* C27: a create-source-buffer for the current pipeline is answered by one
\* create-source-buffer-error with its two ids and the code NoMediaSource
\* when no MediaSource was created on the main thread, and with the code
\* AddSourceBufferError when adding the SourceBuffer fails, nothing being
\* changed in either case; otherwise one channel is added under its
\* sourceBufferId and nothing is posted.
CreateSourceBufferOutcomes ==
    [][CreateSourceBufferAccepted =>
          IF content.mediaSource = 0
          THEN posted' = CreationError("NoMediaSource") /\ UNCHANGED state
          ELSE \/ /\ posted' = CreationError("AddSourceBufferError")
                  /\ UNCHANGED state
               \/ /\ posted' = <<>>
                  /\ ~NotOpen(mediaSources, content.mediaSource)
                  /\ content'.sourceBuffers = Append(content.sourceBuffers,
                         [sourceBufferId |-> last'.sourceBufferId,
                          queuedSourceBuffer |-> Len(qsbs')])
                  /\ Len(qsbs') = Len(qsbs) + 1]_vars

\* C27: a create-source-buffer was just answered with NoMediaSource, the
\* pipeline of the current content having been attached by the worker.
NoMediaSourceAnswered ==
    /\ last.type = "create-source-buffer"
    /\ content # NoContent
    /\ content.mediaSourceId = last.mediaSourceId
    /\ content.mediaSource = 0
    /\ content.sourceBuffers = <<>>
    /\ Len(posted) = 1
    /\ posted[1].code = "NoMediaSource"

\* C28: once a content-info-update for the current content is handled,
\* getMinimumPosition() returns its minimumPosition and getMaximumPosition()
\* its maximumPosition.
PositionsAreThoseOfTheMessage ==
    [][\A c \in ContentIds : \A min \in Positions : \A max \in Positions :
          (OnContentInfoUpdate(c, min, max) /\ IsCurrentContent(content, c)) =>
             /\ getMinimumPosition' = min
             /\ getMaximumPosition' = max]_vars

\* C29: an attach-media-source creates no MediaSource on the main thread,
\* registers no listener and posts nothing, and leaves the content without
\* a MediaSource of its own; a media-source-state-changed is posted only
\* for an event of a MediaSource created by create-media-source, under the
\* mediaSourceId it was created with.
OnlyLocalMediaSourcesNotify ==
    [][/\ last'.type = "attach-media-source" =>
             /\ posted' = <<>>
             /\ Len(mediaSources') = Len(mediaSources)
             /\ \A m \in 1..Len(mediaSources) :
                   mediaSources'[m].listeners = mediaSources[m].listeners
             /\ (IsCurrentContent(content, last'.contentId) /\ ~raised') =>
                   /\ content'.mediaSourceId = last'.mediaSourceId
                   /\ content'.mediaSource = 0
       /\ Len(mediaSources') > Len(mediaSources) =>
             last'.type = "create-media-source"
       /\ posted' # <<>> /\ IsStateChange(posted'[1]) =>
             /\ Len(posted') = 1
             /\ \E m \in Dispatched :
                   posted'[1].mediaSourceId = mediaSources[m].mediaSourceId]_vars

\* C29: the worker just attached its own MediaSource for the current
\* content, no MediaSource having been created on the main thread.
WorkerMediaSourceAttached ==
    /\ last.type = "attach-media-source"
    /\ ~raised
    /\ content # NoContent
    /\ content.mediaSourceId = last.mediaSourceId
    /\ content.mediaSource = 0
    /\ video.src = WorkerSrc
    /\ mediaSources = <<>>

\* C30: at most one MediaSource has the listeners of bindMediaSource
\* registered: the pipeline of a content is released before another one
\* takes its place.
AtMostOneBoundMediaSource ==
    Cardinality({m \in 1..Len(mediaSources) : mediaSources[m].listeners}) <= 1

\* C31: once the promise of initialize was rejected by an initialization-error
\* or by an error of the worker, loadContent and stop post nothing.
HaltedAfterBootstrapError ==
    (promise = "rejected" /\ last.type \in {"loadContent", "stop"})
    => posted = <<>>

\* C32: initializationStatus becomes Initialized by the "initialized" message
\* only, Errored when an initialization-error or an error of the worker
\* arrives while the initialization is pending, Disposed when dispose()
\* releases the worker, and never Initialized again from Errored or Disposed.
StatusTracksLifecycle ==
    [][/\ (initializationStatus' = "Initialized"
              /\ initializationStatus # "Initialized") =>
             last'.type = "initialized"
       /\ (last'.type \in {"initialization-error", "worker-error"}
              /\ promise = "pending") => initializationStatus' = "errorred"
       /\ (last'.type = "dispose" /\ worker) => initializationStatus' = "disposed"
       /\ initializationStatus \in {"errorred", "disposed"} =>
             initializationStatus' # "Initialized"]_vars

\* C33: dispose() stops the feed registered and posts one "dispose"; called
\* again it does nothing; and once the player is disposed no step posts
\* anything to the worker.
NothingAfterDispose ==
    [][/\ (last'.type = "dispose" /\ worker) =>
             /\ posted' = <<[type |-> "dispose"]>>
             /\ content # NoContent =>
                   \A f \in feeds' : f.feed # content.stopPlaybackObservations
       /\ (last'.type = "dispose" /\ ~worker) =>
             (UNCHANGED state /\ posted' = <<>>)
       /\ (started /\ ~worker) => posted' = <<>>]_vars

\* C34: with a content loaded, getPosition() called after seek(p) returns p,
\* whatever p and the offset; with no content, getPosition() returns 0 and
\* seek throws and leaves the currentTime of the element as it is.
SeekRoundTrips ==
    [][\A p \in SeekPositions :
          Seek(p) =>
             IF content = NoContent
             THEN raised' /\ video' = video /\ getPosition' = 0
             ELSE getPosition' = p]_vars

\* C34 as amended: getPosition() called after seek(p) returns p when the sum
\* of p and of the offset is a number, that is when the addition does not
\* round; with no content, getPosition() returns 0 and seek throws and
\* leaves the currentTime of the element as it is.
ExactSeekRoundTrips ==
    [][\A p \in SeekPositions :
          Seek(p) =>
             IF content = NoContent
             THEN raised' /\ video' = video /\ getPosition' = 0
             ELSE Representable(p + OffsetOf(content)) => getPosition' = p]_vars

\* C34: a seek was just made on a content whose offset is not 0, and the
\* position read back is not 0.
SeekWithOffsetSeen ==
    /\ last.type = "seek-call"
    /\ ~raised
    /\ content # NoContent
    /\ OffsetOf(content) > 0
    /\ getPosition > 0
    /\ video.currentTime = getPosition + OffsetOf(content)

====
